---- MODULE Spec2Model ----
(***************************************************************************)
(* Model of the code-execution worker (src/worker/executor.py) together    *)
(* with the submission handler (src/lambda/producer.py), the queue and the *)
(* record store they share.                                                *)
(*                                                                         *)
(* Time values are in milliseconds (a timeout of 10 s is 10000), so that   *)
(* fractional timeouts such as 0.5 s stay integers.                        *)
(***************************************************************************)
EXTENDS Integers, Sequences, FiniteSets, TLC

\* ------------------------------------------------------------------------
\* Bounds of the model
\* ------------------------------------------------------------------------

\* messages ever put on the queue
MaxMsgs == 1
\* deliveries of one message (its ApproximateReceiveCount)
MaxReceive == 3
\* the clock runs from 0 to MaxTime
MaxTime == 2
\* calls of write_result with the same arguments
MaxWrites == 2

\* ------------------------------------------------------------------------
\* Program constants
\* ------------------------------------------------------------------------

MAX_EXECUTION_TIME == 10
MAX_CODE_SIZE == 10 * 1024
MAX_MESSAGES == 1
OUTPUT_BUDGET == 4000
max_retries == 3
max_consecutive_errors == 5
TTL_DAYS == 7
DEFAULT_SUBMIT_TIMEOUT == 5
MAX_TIMEOUT == 10

LANGUAGE_IMAGES == {"python", "javascript", "ruby", "go"}
ALLOWED_LANGUAGES == {"python", "javascript", "ruby", "go"}

Workers == {"w1", "w2"}

\* ------------------------------------------------------------------------
\* Values
\* ------------------------------------------------------------------------

Missing == "MISSING"
\* a JSON value that cannot be a dictionary key (a list or an object)
Unhashable == "UNHASHABLE"

Min(a, b) == IF a <= b THEN a ELSE b

\* a text: txt names its content, len is its length; a text of the same txt
\* and a smaller len is the prefix of that length
\* arg is the number a formatted message carries (0 when it carries none)
Text(t, n) == [txt |-> t, len |-> n, arg |-> 0]
TextWith(t, a) == [txt |-> t, len |-> 0, arg |-> a]
EmptyText == Text("", 0)
\* Prefix with the slice one too long
PrefixOneMore(t, n) == [t EXCEPT !.len = Min(t.len, n + 1)]

\* t[:n]
Prefix(t, n) == [t EXCEPT !.len = Min(t.len, n)]

NoTimeout == [t |-> "missing", ms |-> 0]
Num(ms) == [t |-> "num", ms |-> ms]
NotANumber == [t |-> "str", ms |-> 0]

\* code: kind "str" is a string; "sized" a JSON list or object (len() works);
\* "unsized" a JSON number, boolean or null (len() raises TypeError)
Code(k, n) == [kind |-> k, len |-> n]
NoCode == Code("missing", 0)

Seconds(s) == s * 1000

\* the body of a queue message
NonJson == [kind |-> "nonjson"]
NonObject == [kind |-> "nonobject"]
Job(id, lang, code, timeout, at) ==
    [kind |-> "object", job_id |-> id, language |-> lang, code |-> code,
     timeout |-> timeout, submitted_at |-> at]

\* ------------------------------------------------------------------------
\* validate_job
\* ------------------------------------------------------------------------

Valid == [ret |-> "valid", msg |-> ""]
Invalid(m) == [ret |-> "invalid", msg |-> m]
Raises == [ret |-> "raise", msg |-> ""]

\* job.get('timeout', MAX_EXECUTION_TIME)
GetTimeout(job) ==
    IF job.timeout.t = "missing" THEN Num(Seconds(MAX_EXECUTION_TIME)) ELSE job.timeout

TimeoutRejected(timeout) ==
    \/ timeout.t # "num"
    \/ timeout.ms <= 0
    \/ timeout.ms > Seconds(MAX_EXECUTION_TIME)

validate_job(job) ==
    IF job.job_id = Missing THEN Invalid("Missing required field: job_id")
    ELSE IF job.language = Missing THEN Invalid("Missing required field: language")
    ELSE IF job.code.kind = "missing" THEN Invalid("Missing required field: code")
    ELSE IF job.language = Unhashable THEN Raises
    ELSE IF job.language \notin LANGUAGE_IMAGES THEN Invalid("Unsupported language")
    ELSE IF job.code.kind = "unsized" THEN Raises
    ELSE IF job.code.len > MAX_CODE_SIZE THEN Invalid("Code exceeds size limit")
    ELSE IF TimeoutRejected(GetTimeout(job)) THEN Invalid("Invalid timeout")
    ELSE Valid

\* ------------------------------------------------------------------------
\* execute_code
\* ------------------------------------------------------------------------

\* what the docker client process does under subprocess.run
Exited(rc, out, err, ms) ==
    [kind |-> "exit", rc |-> rc, out |-> out, err |-> err, ms |-> ms]
TimedOut == [kind |-> "timeout", rc |-> 0, out |-> EmptyText, err |-> EmptyText, ms |-> 0]
LaunchFailed(ms) ==
    [kind |-> "launchfail", rc |-> 0, out |-> EmptyText, err |-> EmptyText, ms |-> ms]

Outcome(st, out, err, ms, rc) ==
    [status |-> st, output |-> out, error |-> err, execution_time_ms |-> ms,
     exit_code |-> rc]

\* Classify with every run that ended taken as a success
ClassifyExitAsSuccess(run, timeout) ==
    CASE run.kind = "exit" ->
           Outcome("SUCCESS", Prefix(run.out, OUTPUT_BUDGET),
                   Prefix(run.err, OUTPUT_BUDGET), run.ms, run.rc)
      [] run.kind = "timeout" ->
           Outcome("TIMEOUT", EmptyText,
                   TextWith("Execution exceeded time limit of", timeout.ms),
                   timeout.ms, -1)
      [] OTHER ->
           Outcome("ERROR", EmptyText, Text("Internal execution error", 0),
                   run.ms, -1)

\* the return value of execute_code for a run of the sandbox
Classify(run, timeout) ==
    CASE run.kind = "exit" ->
           Outcome(IF run.rc = 0 THEN "SUCCESS" ELSE "ERROR",
                   Prefix(run.out, OUTPUT_BUDGET), Prefix(run.err, OUTPUT_BUDGET),
                   run.ms, run.rc)
      [] run.kind = "timeout" ->
           Outcome("TIMEOUT", EmptyText,
                   TextWith("Execution exceeded time limit of", timeout.ms),
                   timeout.ms, -1)
      [] OTHER ->
           Outcome("ERROR", EmptyText, Text("Internal execution error", 0),
                   run.ms, -1)

\* the ERROR outcome process_message builds for a job that failed validation
ValidationOutcome(msg) ==
    Outcome("ERROR", EmptyText, Text("Validation error: " \o msg, 0), 0, -1)

\* ------------------------------------------------------------------------
\* records of the store
\* ------------------------------------------------------------------------

NoRecord == [absent |-> TRUE]

\* the item write_result builds
ResultItem(job_id, result, job_metadata, worker, time) ==
    [job_id |-> job_id,
     status |-> result.status,
     output |-> result.output,
     error |-> result.error,
     execution_time_ms |-> result.execution_time_ms,
     exit_code |-> result.exit_code,
     language |-> IF job_metadata.language = Missing THEN "unknown"
                  ELSE job_metadata.language,
     worker_id |-> worker,
     timestamp |-> time,
     ttl |-> time + TTL_DAYS * 86400]

\* the item initialize_job_record builds
PendingItem(job_id, language, time) ==
    [job_id |-> job_id,
     status |-> "PENDING",
     language |-> language,
     submitted_at |-> time,
     output |-> EmptyText,
     error |-> EmptyText,
     execution_time_ms |-> 0]

Terminal == {"SUCCESS", "ERROR", "TIMEOUT"}

\* uuid4 of the n-th submission
JobId(n) == "j" \o ToString(n)
StoreKeys == {"unknown", "x1"} \cup {JobId(n) : n \in 1..MaxMsgs}

\* ------------------------------------------------------------------------
\* State
\* ------------------------------------------------------------------------

VARIABLES
    queue,      \* the messages sent so far: body, st (visible, inflight, deleted),
                \* rc (times received), wfailed (deliveries whose write_result
                \* returned False)
    store,      \* the table: one record (or NoRecord) per job_id
    worker,     \* per worker process: position and locals of poll_queue and its callees
    shutdown,   \* per worker process: shutdown_event
    sandbox,    \* per worker process: the container of the execute_code call in progress
    orphaned,   \* per worker process: a container outlived the call that started it
    lam,        \* the submission handler: position, job, response
    admitted,   \* job_ids answered 202
    now,        \* the clock (seconds)
    heartbeat   \* per worker process: the health_check thread and its file

vars == <<queue, store, worker, shutdown, sandbox, orphaned, lam, admitted, now, heartbeat>>

NoMessage == [id |-> 0, rc |-> 0]
NoJob == [kind |-> "none"]
NoResult == [status |-> "NONE"]
NoRun == [kind |-> "none"]

\* the locals of a worker outside process_message
Locals ==
    [message |-> NoMessage, job |-> NoJob, job_id |-> "", site |-> "",
     result |-> NoResult, item |-> NoRecord, attempt |-> 0, slept |-> << >>,
     wret |-> "none", run |-> NoRun, raised |-> FALSE,
     executed |-> 0, writes |-> 0, puts |-> 0, stored |-> 0, deletes |-> 0]

\* streak: the failed poll cycles since the last poll cycle that succeeded
WorkerInit(p) ==
    [pc |-> p, consecutive_errors |-> 0, messages |-> << >>,
     streak |-> 0] @@ Locals

\* the worker with the locals of process_message gone
Outside(r, p) ==
    [pc |-> p, consecutive_errors |-> r.consecutive_errors, messages |-> r.messages,
     streak |-> r.streak]
    @@ Locals

LamIdle(n, code) == [pc |-> "idle", n |-> n, job |-> NoJob, code |-> code]

\* the health_check thread: position, and the time its file holds (-1: no file)
HeartbeatInit(p) == [pc |-> p, file |-> -1]

\* the worker processes of W have been started (main), the others have not
Started(W) ==
    /\ queue = << >>
    /\ store = [k \in StoreKeys |-> NoRecord]
    /\ worker = [w \in Workers |-> WorkerInit(IF w \in W THEN "poll" ELSE "off")]
    /\ shutdown = [w \in Workers |-> FALSE]
    /\ sandbox = [w \in Workers |-> "none"]
    /\ orphaned = [w \in Workers |-> FALSE]
    /\ lam = LamIdle(0, 0)
    /\ admitted = {}
    /\ now = 0
    /\ heartbeat = [w \in Workers |-> HeartbeatInit(IF w \in W THEN "check" ELSE "off")]

Init == Started({"w1"})

\* ------------------------------------------------------------------------
\* The queue (sqs.receive_message, sqs.delete_message, visibility timeout)
\* ------------------------------------------------------------------------

Visible == {i \in 1..Len(queue) : queue[i].st = "visible" /\ queue[i].rc < MaxReceive}

\* a received batch: the messages of S in order, each with its receipt handle
RECURSIVE Batch(_)
Batch(S) ==
    IF S = {} THEN << >>
    ELSE LET i == CHOOSE x \in S : \A y \in S : x <= y
         IN  <<[id |-> i, rc |-> queue[i].rc + 1]>> \o Batch(S \ {i})

\* DeleteMessage: removes the message when the handle is that of its latest
\* receive; with an older handle the request succeeds and removes nothing
Deleted(q, h) ==
    IF q[h.id].rc = h.rc /\ q[h.id].st # "deleted"
    THEN [q EXCEPT ![h.id].st = "deleted"]
    ELSE q

Send(q, body) == Append(q, [body |-> body, st |-> "visible", rc |-> 0, wfailed |-> 0])

\* the visibility timeout of an in-flight message expires
VisibilityExpires(i) ==
    /\ i \in 1..Len(queue)
    /\ queue[i].st = "inflight"
    /\ queue' = [queue EXCEPT ![i].st = "visible"]
    /\ UNCHANGED <<store, worker, shutdown, sandbox, orphaned, lam, admitted, now, heartbeat>>

\* ------------------------------------------------------------------------
\* signal_handler
\* ------------------------------------------------------------------------

Signal(w) ==
    /\ worker[w].pc \notin {"off", "stopped"}
    /\ ~shutdown[w]
    /\ shutdown' = [shutdown EXCEPT ![w] = TRUE]
    /\ UNCHANGED <<queue, store, worker, sandbox, orphaned, lam, admitted, now, heartbeat>>

\* ------------------------------------------------------------------------
\* poll_queue
\* ------------------------------------------------------------------------

At(w, p) == worker[w].pc = p

\* the handlers of ClientError and of Exception in poll_queue
PollFailure(r) ==
    LET n == r.consecutive_errors + 1
    IN  [r EXCEPT !.consecutive_errors = n,
                  !.streak = @ + 1,
                  !.pc = IF n >= max_consecutive_errors THEN "stopped" ELSE "backoff"]

\* while not shutdown_event.is_set(): the loop ends
PollStop(w) ==
    /\ At(w, "poll")
    /\ shutdown[w]
    /\ worker' = [worker EXCEPT ![w].pc = "stopped"]
    /\ UNCHANGED <<queue, store, shutdown, sandbox, orphaned, lam, admitted, now, heartbeat>>

\* while not shutdown_event.is_set(): the flag is clear, receive_message is
\* called (a signal may arrive while it waits)
PollStart(w) ==
    /\ At(w, "poll")
    /\ ~shutdown[w]
    /\ worker' = [worker EXCEPT ![w].pc = "receive"]
    /\ UNCHANGED <<queue, store, shutdown, sandbox, orphaned, lam, admitted, now, heartbeat>>

\* sqs.receive_message raises
ReceiveFails(w) ==
    /\ At(w, "receive")
    /\ worker' = [worker EXCEPT ![w] = PollFailure(worker[w])]
    /\ UNCHANGED <<queue, store, shutdown, sandbox, orphaned, lam, admitted, now, heartbeat>>

\* sqs.receive_message returns no message
ReceiveEmpty(w) ==
    /\ At(w, "receive")
    /\ Visible = {}
    /\ worker' = [worker EXCEPT ![w].streak = 0, ![w].pc = "poll"]
    /\ UNCHANGED <<queue, store, shutdown, sandbox, orphaned, lam, admitted, now, heartbeat>>

\* sqs.receive_message returns messages
ReceiveMessages(w) ==
    /\ At(w, "receive")
    /\ \E S \in SUBSET Visible :
         /\ S # {}
         /\ Cardinality(S) <= MAX_MESSAGES
         /\ queue' = [i \in 1..Len(queue) |->
                        IF i \in S
                        THEN [queue[i] EXCEPT !.st = "inflight", !.rc = @ + 1]
                        ELSE queue[i]]
         /\ worker' = [worker EXCEPT ![w].messages = Batch(S), ![w].pc = "batch"]
    /\ UNCHANGED <<store, shutdown, sandbox, orphaned, lam, admitted, now, heartbeat>>

\* time.sleep(5) after a failed poll
Backoff(w) ==
    /\ At(w, "backoff")
    /\ worker' = [worker EXCEPT ![w].pc = "poll"]
    /\ UNCHANGED <<queue, store, shutdown, sandbox, orphaned, lam, admitted, now, heartbeat>>

\* BatchNext without the check of the shutdown flag between messages
BatchNextIgnoresShutdown(w) ==
    /\ At(w, "batch")
    /\ worker[w].messages # << >>
    /\ worker' = [worker EXCEPT ![w] =
                    [Outside(worker[w], "parse") EXCEPT
                        !.message = Head(worker[w].messages),
                        !.messages = Tail(worker[w].messages)]]
    /\ UNCHANGED <<queue, store, shutdown, sandbox, orphaned, lam, admitted, now, heartbeat>>

\* for message in messages: the next message enters process_message
BatchNext(w) ==
    /\ At(w, "batch")
    /\ worker[w].messages # << >>
    /\ ~shutdown[w]
    /\ worker' = [worker EXCEPT ![w] =
                    [Outside(worker[w], "parse") EXCEPT
                        !.message = Head(worker[w].messages),
                        !.messages = Tail(worker[w].messages)]]
    /\ UNCHANGED <<queue, store, shutdown, sandbox, orphaned, lam, admitted, now, heartbeat>>

\* the batch is finished, or shutdown breaks it: consecutive_errors = 0
BatchEnd(w) ==
    /\ At(w, "batch")
    /\ worker[w].messages = << >> \/ shutdown[w]
    /\ worker' = [worker EXCEPT ![w].pc = "poll", ![w].consecutive_errors = 0,
                                ![w].streak = 0, ![w].messages = << >>]
    /\ UNCHANGED <<queue, store, shutdown, sandbox, orphaned, lam, admitted, now, heartbeat>>

\* ------------------------------------------------------------------------
\* process_message
\* ------------------------------------------------------------------------

Body(w) == queue[worker[w].message.id].body

\* Caught with no handler of Exception in process_message: the exception
\* reaches the handler in poll_queue
CaughtByPollQueue(r) == PollFailure([r EXCEPT !.raised = TRUE])

\* the handler of Exception: logs, does not delete, process_message returns
Caught(r) == [r EXCEPT !.pc = "returned", !.raised = TRUE]

Rest == <<store, shutdown, sandbox, orphaned, lam, admitted, now, heartbeat>>

\* json.loads raises JSONDecodeError: the handler deletes the message
ParseNonJson(w) ==
    /\ At(w, "parse")
    /\ Body(w).kind = "nonjson"
    /\ worker' = [worker EXCEPT ![w].pc = "delete", ![w].site = "malformed"]
    /\ UNCHANGED <<queue>> /\ UNCHANGED Rest

\* json.loads returns a value with no get(): AttributeError
ParseNonObject(w) ==
    /\ At(w, "parse")
    /\ Body(w).kind = "nonobject"
    /\ worker' = [worker EXCEPT ![w] = Caught(worker[w])]
    /\ UNCHANGED <<queue>> /\ UNCHANGED Rest

\* job = json.loads(...); job_id = job.get('job_id', 'unknown')
ParseJob(w) ==
    /\ At(w, "parse")
    /\ Body(w).kind = "object"
    /\ worker' = [worker EXCEPT
                    ![w].job = Body(w),
                    ![w].job_id = IF Body(w).job_id = Missing THEN "unknown"
                                  ELSE Body(w).job_id,
                    ![w].pc = "validate"]
    /\ UNCHANGED <<queue>> /\ UNCHANGED Rest

\* AfterValidation without the return that ends the invalid branch
AfterValidationFallsThrough(r, v) ==
    CASE v.ret = "raise" -> [r EXCEPT !.pc = "returned", !.raised = TRUE]
      [] v.ret = "invalid" ->
           [r EXCEPT !.result = ValidationOutcome(v.msg), !.site = "invalid",
                     !.pc = "exec"]
      [] OTHER -> [r EXCEPT !.site = "valid", !.pc = "exec"]

\* process_message after validate_job returned v (or raised)
AfterValidation(r, v) ==
    CASE v.ret = "raise" -> Caught(r)
      [] v.ret = "invalid" ->
           [r EXCEPT !.result = ValidationOutcome(v.msg), !.site = "invalid",
                     !.pc = "write"]
      [] OTHER -> [r EXCEPT !.site = "valid", !.pc = "exec"]

\* is_valid, error_msg = validate_job(job)
Validate(w) ==
    /\ At(w, "validate")
    /\ worker' = [worker EXCEPT ![w] =
                    AfterValidation(worker[w], validate_job(worker[w].job))]
    /\ UNCHANGED <<queue>> /\ UNCHANGED Rest

\* ------------------------------------------------------------------------
\* execute_code
\* ------------------------------------------------------------------------

\* runs of the sandbox that end within the timeout
ExitRuns ==
    {Exited(0, Text("hello world", 12), Text("warning", OUTPUT_BUDGET + 1), 40),
     Exited(1, Text("partial", OUTPUT_BUDGET + 1000), Text("SyntaxError", 60), 900)}

\* a run that raised in subprocess.run
FailedRun == LaunchFailed(3)

\* execute_code returns its classification of the run
Returned(r, run) ==
    [r EXCEPT !.run = run, !.result = Classify(run, GetTimeout(r.job)), !.pc = "write"]

\* subprocess.run starts the docker client, which starts the container
ExecStart(w) ==
    /\ At(w, "exec")
    /\ worker[w].job.code.kind = "str"
    /\ worker' = [worker EXCEPT ![w].pc = "running", ![w].executed = @ + 1]
    /\ sandbox' = [sandbox EXCEPT ![w] = "running"]
    /\ UNCHANGED <<queue, store, shutdown, orphaned, lam, admitted, now, heartbeat>>

\* ExecLaunchFails with the exception leaving execute_code
ExecLaunchRaises(w) ==
    /\ worker[w].pc = "exec"
    /\ worker' = [worker EXCEPT ![w] =
          [worker[w] EXCEPT !.executed = @ + 1, !.pc = "returned", !.raised = TRUE]]
    /\ UNCHANGED <<queue, store, shutdown, sandbox, orphaned, lam, admitted, now, heartbeat>>

\* subprocess.run raises before a container runs (no docker, a code that is
\* not a string): the handler of Exception returns the internal error
ExecLaunchFails(w) ==
    /\ At(w, "exec")
    /\ worker' = [worker EXCEPT ![w] =
            Returned([worker[w] EXCEPT !.executed = @ + 1], FailedRun)]
    /\ UNCHANGED <<queue>> /\ UNCHANGED Rest

\* the container ends within the timeout, with a run of Runs
RunExitsIn(w, Runs) ==
    /\ At(w, "running")
    /\ \E run \in Runs :
         worker' = [worker EXCEPT ![w] =
            Returned(worker[w], run)]
    /\ sandbox' = [sandbox EXCEPT ![w] = "none"]
    /\ UNCHANGED <<queue, store, shutdown, orphaned, lam, admitted, now, heartbeat>>

RunExits(w) == RunExitsIn(w, ExitRuns)

\* what subprocess.run's timeout does to the container: it kills the docker
\* client process; nothing stops the container
AfterTimeout(w) ==
    /\ sandbox' = [sandbox EXCEPT ![w] = "none"]
    /\ orphaned' = [orphaned EXCEPT ![w] = TRUE]

\* subprocess.TimeoutExpired
RunTimesOut(w) ==
    /\ At(w, "running")
    /\ worker' = [worker EXCEPT ![w] =
          Returned(worker[w], TimedOut)]
    /\ AfterTimeout(w)
    /\ UNCHANGED <<queue, store, shutdown, lam, admitted, now, heartbeat>>

\* the container ended, subprocess.run raises (its output does not decode)
RunSuperviseFails(w) ==
    /\ At(w, "running")
    /\ worker' = [worker EXCEPT ![w] =
            Returned(worker[w], FailedRun)]
    /\ sandbox' = [sandbox EXCEPT ![w] = "none"]
    /\ UNCHANGED <<queue, store, shutdown, orphaned, lam, admitted, now, heartbeat>>

\* a container that outlived its call ends by itself
OrphanEnds(w) ==
    /\ orphaned[w]
    /\ orphaned' = [orphaned EXCEPT ![w] = FALSE]
    /\ UNCHANGED <<queue, store, worker, shutdown, sandbox, lam, admitted, now, heartbeat>>

\* ------------------------------------------------------------------------
\* write_result
\* ------------------------------------------------------------------------


IsRecord(r) == "status" \in DOMAIN r

\* PutItem as a conditional write (attribute_not_exists)
PutItemIfAbsent(t, item) ==
    IF IsRecord(t[item.job_id]) THEN t ELSE [t EXCEPT ![item.job_id] = item]

\* PutItem as an update that adds to the stored execution time
PutItemAccumulates(t, item) ==
    IF IsRecord(t[item.job_id])
    THEN [t EXCEPT ![item.job_id] =
            [item EXCEPT !.execution_time_ms = @ + t[item.job_id].execution_time_ms]]
    ELSE [t EXCEPT ![item.job_id] = item]

\* PutItem as a write on the condition that no outcome is stored yet
PutItemUnlessTerminal(t, item) ==
    IF IsRecord(t[item.job_id]) /\ t[item.job_id].status \in {"SUCCESS", "ERROR", "TIMEOUT"}
    THEN t
    ELSE [t EXCEPT ![item.job_id] = item]

\* table.put_item(Item=item): a full replace of the record under the key
PutItem(t, item) == [t EXCEPT ![item.job_id] = item]

\* WriteStart with the shutdown flag read before the write: a worker told to
\* stop leaves process_message
WriteStartUnlessShutdown(w) ==
    /\ At(w, "write")
    /\ worker' = [worker EXCEPT ![w] =
          IF shutdown[w]
          THEN [worker[w] EXCEPT !.pc = "returned"]
          ELSE [worker[w] EXCEPT
                  !.item = ResultItem(worker[w].job_id, worker[w].result,
                                      worker[w].job, w, now),
                  !.attempt = 0, !.slept = << >>, !.puts = 0, !.stored = 0,
                  !.wret = "none", !.writes = @ + 1, !.pc = "put"]]
    /\ UNCHANGED <<queue>> /\ UNCHANGED Rest

\* write_result is entered: the item is built
WriteStart(w) ==
    /\ At(w, "write")
    /\ worker' = [worker EXCEPT
                    ![w].item = ResultItem(worker[w].job_id, worker[w].result,
                                           worker[w].job, w, now),
                    ![w].attempt = 0,
                    ![w].slept = << >>,
                    ![w].puts = 0,
                    ![w].stored = 0,
                    ![w].wret = "none",
                    ![w].writes = @ + 1,
                    ![w].pc = "put"]
    /\ UNCHANGED <<queue>> /\ UNCHANGED Rest

\* put_item succeeds: return True
PutOk(w) ==
    /\ At(w, "put")
    /\ store' = PutItem(store, worker[w].item)
    /\ worker' = [worker EXCEPT ![w].wret = "true", ![w].pc = "delete",
                                ![w].puts = @ + 1, ![w].stored = @ + 1]
    /\ UNCHANGED <<queue, shutdown, sandbox, orphaned, lam, admitted, now, heartbeat>>

\* AfterClientError with the bound of the retries off by one
AfterClientErrorOneMore(r) ==
    IF r.attempt < max_retries
    THEN [r EXCEPT !.slept = Append(@, 2 ^ r.attempt), !.attempt = @ + 1,
                   !.puts = @ + 1]
    ELSE [r EXCEPT !.wret = "false", !.pc = "delete", !.puts = @ + 1]

\* the handler of ClientError in write_result
AfterClientError(r) ==
    IF r.attempt < max_retries - 1
    THEN [r EXCEPT !.slept = Append(@, 2 ^ r.attempt), !.attempt = @ + 1,
                   !.puts = @ + 1]
    ELSE [r EXCEPT !.wret = "false", !.pc = "delete", !.puts = @ + 1]

\* put_item raises ClientError
PutClientError(w) ==
    /\ At(w, "put")
    /\ worker' = [worker EXCEPT ![w] = AfterClientError(worker[w])]
    /\ queue' = IF worker'[w].wret = "false"
                THEN [queue EXCEPT ![worker[w].message.id].wfailed = @ + 1]
                ELSE queue
    /\ UNCHANGED Rest

\* put_item raises another exception, which leaves write_result
PutRaises(w) ==
    /\ At(w, "put")
    /\ worker' = [worker EXCEPT ![w] = Caught([worker[w] EXCEPT !.puts = @ + 1])]
    /\ UNCHANGED <<queue>> /\ UNCHANGED Rest

\* ------------------------------------------------------------------------
\* delete_message
\* ------------------------------------------------------------------------

\* sqs.delete_message succeeds
DeleteOk(w) ==
    /\ At(w, "delete")
    /\ queue' = Deleted(queue, worker[w].message)
    /\ worker' = [worker EXCEPT ![w].deletes = @ + 1, ![w].pc = "returned"]
    /\ UNCHANGED Rest

\* sqs.delete_message raises ClientError, which delete_message logs
DeleteClientError(w) ==
    /\ At(w, "delete")
    /\ worker' = [worker EXCEPT ![w].deletes = @ + 1, ![w].pc = "returned"]
    /\ UNCHANGED <<queue>> /\ UNCHANGED Rest

\* sqs.delete_message raises another exception: inside the try of
\* process_message it is caught there; from the handler of JSONDecodeError it
\* leaves process_message and reaches the handler of Exception in poll_queue
DeleteRaises(w) ==
    /\ At(w, "delete")
    /\ worker' = [worker EXCEPT ![w] =
          IF worker[w].site = "malformed"
          THEN PollFailure([Outside(worker[w], "poll") EXCEPT !.messages = << >>])
          ELSE Caught([worker[w] EXCEPT !.deletes = @ + 1])]
    /\ UNCHANGED <<queue>> /\ UNCHANGED Rest

\* process_message returns to the loop over the batch
Return(w) ==
    /\ At(w, "returned")
    /\ worker' = [worker EXCEPT ![w] = Outside(worker[w], "batch")]
    /\ UNCHANGED <<queue>> /\ UNCHANGED Rest

\* ------------------------------------------------------------------------
\* The submission handler (producer.py)
\* ------------------------------------------------------------------------

P_MAX_CODE_SIZE == 10 * 1024

Request(lang, code, timeout) == [language |-> lang, code |-> code, timeout |-> timeout]

\* str.lower()
Lower(l) ==
    CASE l = "Python" -> "python"
      [] l = "GO" -> "go"
      [] OTHER -> l

\* body.get('timeout', 5)
SubmitTimeout(body) ==
    IF body.timeout.t = "missing" THEN Num(Seconds(DEFAULT_SUBMIT_TIMEOUT))
    ELSE body.timeout

validate_request(body) ==
    IF body.language = Missing THEN Invalid("Missing required field: 'language'")
    ELSE IF body.code.kind = "missing" THEN Invalid("Missing required field: 'code'")
    ELSE IF body.language = Unhashable THEN Raises
    ELSE IF Lower(body.language) \notin ALLOWED_LANGUAGES
         THEN Invalid("Unsupported language")
    ELSE IF body.code.kind # "str" THEN Invalid("Field 'code' must be a string")
    ELSE IF body.code.len = 0 THEN Invalid("Code cannot be empty")
    ELSE IF body.code.len > P_MAX_CODE_SIZE THEN Invalid("Code exceeds maximum size")
    ELSE IF SubmitTimeout(body).t # "num" THEN Invalid("Field 'timeout' must be a number")
    ELSE IF \/ SubmitTimeout(body).ms <= 0
            \/ SubmitTimeout(body).ms > Seconds(MAX_TIMEOUT)
         THEN Invalid("Timeout must be between 1 and 10 seconds")
    ELSE Valid

\* create_job with the language as the client wrote it
create_job_keeps_case(body, n, time) ==
    Job(JobId(n), body.language, body.code, SubmitTimeout(body), time)

create_job(body, n, time) ==
    Job(JobId(n), Lower(body.language), body.code, SubmitTimeout(body), time)

Requests ==
    {Request("python", Code("str", 20), NoTimeout),
     Request("GO", Code("str", 20), Num(500)),
     Request("haskell", Code("str", 20), NoTimeout)}

\* Submit with a job_id that is not fresh: every job gets the first id
SubmitReusesJobId(req) ==
    /\ lam.pc = "idle"
    /\ LET v == validate_request(req)
       IN  lam' = CASE v.ret = "raise" -> LamIdle(lam.n, 502)
                    [] v.ret = "invalid" -> LamIdle(lam.n, 400)
                    [] OTHER -> [pc |-> "init", n |-> 1,
                                 job |-> create_job(req, 1, now), code |-> 0]
    /\ UNCHANGED <<queue, store, worker, shutdown, sandbox, orphaned, admitted, now, heartbeat>>

\* lambda_handler up to create_job
Submit(req) ==
    /\ lam.pc = "idle"
    /\ lam.n < MaxMsgs
    /\ LET v == validate_request(req)
       IN  lam' = CASE v.ret = "raise" -> LamIdle(lam.n, 502)
                    [] v.ret = "invalid" -> LamIdle(lam.n, 400)
                    [] OTHER -> [pc |-> "init", n |-> lam.n + 1,
                                 job |-> create_job(req, lam.n + 1, now), code |-> 0]
    /\ UNCHANGED <<queue, store, worker, shutdown, sandbox, orphaned, admitted, now, heartbeat>>

\* initialize_job_record writes the PENDING record
InitRecordOk ==
    /\ lam.pc = "init"
    /\ store' = PutItem(store, PendingItem(lam.job.job_id, lam.job.language, now))
    /\ lam' = [lam EXCEPT !.pc = "enqueue"]
    /\ UNCHANGED <<queue, worker, shutdown, sandbox, orphaned, admitted, now, heartbeat>>

\* InitRecordFails with the result of initialize_job_record ignored: the
\* handler goes on to enqueue
InitRecordFailsThenEnqueues ==
    /\ lam.pc = "init"
    /\ lam' = [lam EXCEPT !.pc = "enqueue"]
    /\ UNCHANGED <<queue, store, worker, shutdown, sandbox, orphaned, admitted, now, heartbeat>>

\* initialize_job_record returns False: 500
InitRecordFails ==
    /\ lam.pc = "init"
    /\ lam' = LamIdle(lam.n, 500)
    /\ UNCHANGED <<queue, store, worker, shutdown, sandbox, orphaned, admitted, now, heartbeat>>

\* enqueue_job sends the message: 202
EnqueueOk ==
    /\ lam.pc = "enqueue"
    /\ Len(queue) < MaxMsgs
    /\ queue' = Send(queue, lam.job)
    /\ admitted' = admitted \cup {lam.job.job_id}
    /\ lam' = LamIdle(lam.n, 202)
    /\ UNCHANGED <<store, worker, shutdown, sandbox, orphaned, now, heartbeat>>

\* enqueue_job returns False: 500
EnqueueFails ==
    /\ lam.pc = "enqueue"
    /\ lam' = LamIdle(lam.n, 500)
    /\ UNCHANGED <<queue, store, worker, shutdown, sandbox, orphaned, admitted, now, heartbeat>>

\* ------------------------------------------------------------------------
\* Messages that did not come from the submission handler
\* ------------------------------------------------------------------------

ForeignBodies ==
    {NonJson, NonObject,
     Job("x1", "python", Code("str", 20), Num(2000), Missing),
     Job("x1", "haskell", Code("str", 20), NoTimeout, Missing),
     Job(Missing, "python", Code("str", 20), NoTimeout, Missing),
     Job("x1", "python", Code("unsized", 0), NoTimeout, Missing)}

Inject(body) ==
    /\ Len(queue) < MaxMsgs
    /\ queue' = Send(queue, body)
    /\ UNCHANGED <<store, worker, shutdown, sandbox, orphaned, lam, admitted, now, heartbeat>>

\* ------------------------------------------------------------------------
\* Specification
\* ------------------------------------------------------------------------

WorkerStep(w) ==
    \/ PollStop(w) \/ PollStart(w)
    \/ ReceiveFails(w) \/ ReceiveEmpty(w) \/ ReceiveMessages(w)
    \/ Backoff(w) \/ BatchNext(w) \/ BatchEnd(w)
    \/ ParseNonJson(w) \/ ParseNonObject(w) \/ ParseJob(w) \/ Validate(w)
    \/ ExecStart(w) \/ ExecLaunchFails(w)
    \/ RunExits(w) \/ RunTimesOut(w) \/ RunSuperviseFails(w)
    \/ WriteStart(w) \/ PutOk(w) \/ PutClientError(w) \/ PutRaises(w)
    \/ DeleteOk(w) \/ DeleteClientError(w) \/ DeleteRaises(w) \/ Return(w)

Next ==
    \/ \E w \in Workers : WorkerStep(w)
    \/ \E w \in Workers : Signal(w)
    \/ \E w \in Workers : OrphanEnds(w)
    \/ \E i \in 1..MaxMsgs : VisibilityExpires(i)
    \/ \E req \in Requests : Submit(req)
    \/ InitRecordOk \/ InitRecordFails \/ EnqueueOk \/ EnqueueFails
    \/ \E body \in ForeignBodies : Inject(body)

Spec == Init /\ [][Next]_vars

\* The worker kept running: no signal, no failing poll, only messages of the
\* submission handler. The loop of the worker goes on (WF of its steps), a put
\* that is tried again and again succeeds in the end (SF), and an in-flight
\* message becomes visible again (WF).
LiveWorkerStep(w) ==
    \/ PollStart(w)
    \/ ReceiveEmpty(w) \/ ReceiveMessages(w) \/ BatchNext(w) \/ BatchEnd(w)
    \/ ParseJob(w) \/ Validate(w)
    \/ ExecStart(w) \/ ExecLaunchFails(w)
    \/ RunExits(w) \/ RunTimesOut(w) \/ RunSuperviseFails(w)
    \/ WriteStart(w) \/ PutOk(w) \/ PutClientError(w) \/ PutRaises(w)
    \/ DeleteOk(w) \/ DeleteClientError(w) \/ DeleteRaises(w) \/ Return(w)

LiveNext ==
    \/ \E w \in Workers : LiveWorkerStep(w)
    \/ \E w \in Workers : OrphanEnds(w)
    \/ \E i \in 1..MaxMsgs : VisibilityExpires(i)
    \/ \E req \in Requests : Submit(req)
    \/ InitRecordOk \/ InitRecordFails \/ EnqueueOk \/ EnqueueFails

SpecLive ==
    /\ Init
    /\ [][LiveNext]_vars
    /\ \A w \in Workers : WF_vars(LiveWorkerStep(w)) /\ SF_vars(PutOk(w))
    /\ \A i \in 1..MaxMsgs : WF_vars(VisibilityExpires(i))

\* ------------------------------------------------------------------------
\* write_result called again with the same arguments
\* ------------------------------------------------------------------------

\* datetime.utcnow() moves on
Tick ==
    /\ now < MaxTime
    /\ now' = now + 1
    /\ UNCHANGED <<queue, store, worker, shutdown, sandbox, orphaned, lam, admitted,
                   heartbeat>>

\* the jobs and outcomes write_result is called with
WriteJobs ==
    {Job("x1", "python", Code("str", 20), Num(2000), Missing),
     Job(Missing, "ruby", Code("str", 20), NoTimeout, Missing),
     Job("x1", Missing, Code("str", 20), NoTimeout, Missing)}

WriteResults(job) ==
    IF validate_job(job) = Valid
    THEN {Classify(run, GetTimeout(job)) : run \in ExitRuns \cup {TimedOut, FailedRun}}
    ELSE {ValidationOutcome(validate_job(job).msg)}

\* a worker about to call write_result(job_id, result, job) for a message
AtWrite(job, result) ==
    [WorkerInit("write") EXCEPT
        !.message = [id |-> 1, rc |-> 1],
        !.job = job,
        !.job_id = IF job.job_id = Missing THEN "unknown" ELSE job.job_id,
        !.site = IF validate_job(job) = Valid THEN "valid" ELSE "invalid",
        !.result = result]

InitWrite ==
    /\ \E job \in WriteJobs : \E result \in WriteResults(job) :
         /\ queue = <<[body |-> job, st |-> "inflight", rc |-> 1, wfailed |-> 0]>>
         /\ worker = [w \in Workers |->
                        IF w = "w1" THEN AtWrite(job, result) ELSE WorkerInit("off")]
    /\ store = [k \in StoreKeys |-> NoRecord]
    /\ shutdown = [w \in Workers |-> FALSE]
    /\ sandbox = [w \in Workers |-> "none"]
    /\ orphaned = [w \in Workers |-> FALSE]
    /\ lam = LamIdle(0, 0)
    /\ admitted = {}
    /\ now = 0
    /\ heartbeat = [w \in Workers |-> HeartbeatInit(IF w = "w1" THEN "check" ELSE "off")]

\* write_result has returned and is called again with the same job_id, result
\* and job_metadata
WriteAgain(w) ==
    /\ At(w, "delete")
    /\ worker[w].wret \in {"true", "false"}
    /\ worker[w].writes < MaxWrites
    /\ worker' = [worker EXCEPT ![w].pc = "write"]
    /\ UNCHANGED <<queue>> /\ UNCHANGED Rest

NextWrite ==
    \/ \E w \in Workers :
         \/ WriteStart(w) \/ PutOk(w) \/ PutClientError(w) \/ PutRaises(w)
         \/ WriteAgain(w)
    \/ Tick

SpecWrite == InitWrite /\ [][NextWrite]_vars

\* ------------------------------------------------------------------------
\* validate_job on the jobs a message can carry
\* ------------------------------------------------------------------------

ValidateTimeouts ==
    {NoTimeout, NotANumber, Num(-1000), Num(0), Num(500), Num(1000),
     Num(Seconds(MAX_EXECUTION_TIME)), Num(Seconds(MAX_EXECUTION_TIME) + 1),
     Num(Seconds(MAX_EXECUTION_TIME + 1))}

ValidateCodes ==
    {NoCode, Code("str", 0), Code("str", MAX_CODE_SIZE), Code("str", MAX_CODE_SIZE + 1),
     Code("sized", 2), Code("unsized", 0)}

ValidateJobs ==
    {Job(id, lang, code, timeout, Missing) :
        id \in {Missing, "x1"},
        lang \in {Missing, "python", "go", "haskell", "Python", Unhashable},
        code \in ValidateCodes,
        timeout \in ValidateTimeouts}

\* process_message has parsed the job of a message and is about to validate it
AtValidate(job) ==
    [WorkerInit("validate") EXCEPT
        !.message = [id |-> 1, rc |-> 1],
        !.job = job,
        !.job_id = IF job.job_id = Missing THEN "unknown" ELSE job.job_id]

InitValidate ==
    /\ \E job \in ValidateJobs :
         /\ queue = <<[body |-> job, st |-> "inflight", rc |-> 1, wfailed |-> 0]>>
         /\ worker = [w \in Workers |->
                        IF w = "w1" THEN AtValidate(job) ELSE WorkerInit("off")]
    /\ store = [k \in StoreKeys |-> NoRecord]
    /\ shutdown = [w \in Workers |-> FALSE]
    /\ sandbox = [w \in Workers |-> "none"]
    /\ orphaned = [w \in Workers |-> FALSE]
    /\ lam = LamIdle(0, 0)
    /\ admitted = {}
    /\ now = 0
    /\ heartbeat = [w \in Workers |-> HeartbeatInit(IF w = "w1" THEN "check" ELSE "off")]

NextValidate == \E w \in Workers : Validate(w)

SpecValidate == InitValidate /\ [][NextValidate]_vars

\* ------------------------------------------------------------------------
\* Two worker processes on one queue
\* ------------------------------------------------------------------------

InitTwo == Started(Workers)

TwoBodies == {Job("x1", "python", Code("str", 20), Num(2000), Missing)}

TwoWorkerStep(w) ==
    \/ PollStart(w)
    \/ ReceiveEmpty(w) \/ ReceiveMessages(w) \/ BatchNext(w) \/ BatchEnd(w)
    \/ ParseJob(w) \/ Validate(w) \/ ExecStart(w) \/ RunExits(w)
    \/ WriteStart(w) \/ PutOk(w) \/ PutClientError(w)
    \/ DeleteOk(w) \/ DeleteClientError(w) \/ DeleteRaises(w) \/ Return(w)

NextTwo ==
    \/ \E w \in Workers : TwoWorkerStep(w)
    \/ \E i \in 1..MaxMsgs : VisibilityExpires(i)
    \/ \E body \in TwoBodies : Inject(body)

SpecTwo == InitTwo /\ [][NextTwo]_vars

\* ------------------------------------------------------------------------
\* health_check (the heartbeat thread)
\* ------------------------------------------------------------------------

Beating(w, p) == heartbeat[w].pc = p

HeartbeatRest == <<queue, store, worker, shutdown, sandbox, orphaned, lam, admitted, now>>

\* while not shutdown_event.is_set()
HeartbeatCheck(w) ==
    /\ Beating(w, "check")
    /\ heartbeat' = [heartbeat EXCEPT ![w].pc = IF shutdown[w] THEN "done" ELSE "beat"]
    /\ UNCHANGED HeartbeatRest

\* the file is opened and the time written
HeartbeatWrite(w) ==
    /\ Beating(w, "beat")
    /\ heartbeat' = [heartbeat EXCEPT ![w].file = now, ![w].pc = "sleep"]
    /\ UNCHANGED HeartbeatRest

\* HeartbeatWriteFails with no handler of Exception: the thread ends
HeartbeatWriteFailsEndsThread(w) ==
    /\ Beating(w, "beat")
    /\ \E f \in {heartbeat[w].file, -1} :
         heartbeat' = [heartbeat EXCEPT ![w].file = f, ![w].pc = "done"]
    /\ UNCHANGED HeartbeatRest

\* open() or write() raises (the file is as it was, or truncated): the handler
\* logs and the loop goes on, without the sleep
HeartbeatWriteFails(w) ==
    /\ Beating(w, "beat")
    /\ \E f \in {heartbeat[w].file, -1} :
         heartbeat' = [heartbeat EXCEPT ![w].file = f, ![w].pc = "check"]
    /\ UNCHANGED HeartbeatRest

\* time.sleep(30) ends
HeartbeatSleep(w) ==
    /\ Beating(w, "sleep")
    /\ heartbeat' = [heartbeat EXCEPT ![w].pc = "check"]
    /\ UNCHANGED HeartbeatRest

\* poll_queue has returned and main with it: the daemon thread ends with the
\* process
MainReturns(w) ==
    /\ At(w, "stopped")
    /\ heartbeat[w].pc \notin {"off", "done"}
    /\ heartbeat' = [heartbeat EXCEPT ![w].pc = "done"]
    /\ UNCHANGED HeartbeatRest

HeartbeatStep(w) ==
    \/ HeartbeatCheck(w) \/ HeartbeatWrite(w) \/ HeartbeatWriteFails(w)
    \/ HeartbeatSleep(w)

\* the main loop beside it, on a job that comes out of the sandbox
MainStep(w) ==
    \/ PollStop(w) \/ PollStart(w) \/ ReceiveEmpty(w) \/ ReceiveMessages(w)
    \/ BatchNext(w) \/ BatchEnd(w) \/ ParseJob(w) \/ Validate(w)
    \/ ExecStart(w) \/ RunExits(w)
    \/ WriteStart(w) \/ PutOk(w) \/ PutClientError(w)
    \/ DeleteOk(w) \/ Return(w)

NextHeartbeat ==
    \/ \E w \in Workers : HeartbeatStep(w)
    \/ \E w \in Workers : MainStep(w)
    \/ \E w \in Workers : MainReturns(w)
    \/ \E w \in Workers : Signal(w)
    \/ \E body \in TwoBodies : Inject(body)
    \/ Tick

\* The thread is scheduled whatever the main loop does (WF of its steps), and
\* a write of the file that is tried again and again succeeds in the end (SF).
\* Nothing is assumed of the main loop, which may stay blocked in any call.
SpecHeartbeat ==
    /\ Init
    /\ [][NextHeartbeat]_vars
    /\ \A w \in Workers : WF_vars(HeartbeatStep(w)) /\ SF_vars(HeartbeatWrite(w))

\* ------------------------------------------------------------------------
\* execute_code on runs with outputs around the budget
\* ------------------------------------------------------------------------

CapturedLengths ==
    {0, 1, OUTPUT_BUDGET - 1, OUTPUT_BUDGET, OUTPUT_BUDGET + 1, 2 * OUTPUT_BUDGET}

CapturedRuns ==
    {Exited(rc, Text("stdout", n), Text("stderr", m), 40) :
        rc \in {0, 1, 2, 137}, n \in CapturedLengths, m \in CapturedLengths}

\* the first delivery of a message with body job is with worker w1, which is
\* at r in process_message; nothing else has happened
MidDelivery(job, r) ==
    /\ queue = <<[body |-> job, st |-> "inflight", rc |-> 1, wfailed |-> 0]>>
    /\ worker = [w \in Workers |->
                   IF w = "w1"
                   THEN [r EXCEPT !.message = [id |-> 1, rc |-> 1], !.job = job,
                                  !.job_id = IF job.job_id = Missing THEN "unknown"
                                             ELSE job.job_id]
                   ELSE WorkerInit("off")]
    /\ store = [k \in StoreKeys |-> NoRecord]
    /\ shutdown = [w \in Workers |-> FALSE]
    /\ orphaned = [w \in Workers |-> FALSE]
    /\ lam = LamIdle(0, 0)
    /\ admitted = {}
    /\ now = 0
    /\ heartbeat = [w \in Workers |-> HeartbeatInit(IF w = "w1" THEN "check" ELSE "off")]

\* execute_code is waiting in subprocess.run for the container of a valid job
InitTruncate ==
    /\ \E job \in TwoBodies :
         MidDelivery(job, [WorkerInit("running") EXCEPT !.site = "valid", !.executed = 1])
    /\ sandbox = [w \in Workers |-> IF w = "w1" THEN "running" ELSE "none"]

NextTruncate == \E w \in Workers : RunExitsIn(w, CapturedRuns)

SpecTruncate == InitTruncate /\ [][NextTruncate]_vars

\* ------------------------------------------------------------------------
\* The worker told to stop
\* ------------------------------------------------------------------------

ShutdownStep(w) ==
    \/ PollStop(w) \/ PollStart(w)
    \/ ReceiveFails(w) \/ ReceiveEmpty(w) \/ ReceiveMessages(w) \/ Backoff(w)
    \/ BatchNext(w) \/ BatchEnd(w) \/ ParseJob(w) \/ Validate(w)
    \/ ExecStart(w) \/ RunExits(w)
    \/ WriteStart(w) \/ PutOk(w) \/ PutClientError(w)
    \/ DeleteOk(w) \/ Return(w)

NextShutdown ==
    \/ \E w \in Workers : ShutdownStep(w)
    \/ \E w \in Workers : Signal(w)
    \/ \E i \in 1..MaxMsgs : VisibilityExpires(i)
    \/ \E body \in TwoBodies : Inject(body)

\* Every blocking call of the main loop returns (receive_message, the sleeps,
\* subprocess.run, put_item, delete_message): WF of the worker's steps.
SpecShutdown ==
    /\ Init
    /\ [][NextShutdown]_vars
    /\ \A w \in Workers : WF_vars(ShutdownStep(w))

\* ------------------------------------------------------------------------
\* Two worker processes on the jobs of the submission handler
\* ------------------------------------------------------------------------

NextSubmitTwo ==
    \/ \E w \in Workers : TwoWorkerStep(w)
    \/ \E i \in 1..MaxMsgs : VisibilityExpires(i)
    \/ \E req \in Requests : Submit(req)
    \/ InitRecordOk \/ InitRecordFails \/ EnqueueOk \/ EnqueueFails

SpecSubmitTwo == InitTwo /\ [][NextSubmitTwo]_vars

\* ------------------------------------------------------------------------
\* The worker's validation of the jobs the submission handler admits
\* ------------------------------------------------------------------------

AdmitRequests ==
    {Request(lang, code, timeout) :
        lang \in {Missing, "python", "Python", "go", "GO", "ruby", "javascript",
                  "haskell", Unhashable},
        code \in ValidateCodes \cup {Code("str", 1)},
        timeout \in ValidateTimeouts}

NextAdmit ==
    \/ \E req \in AdmitRequests : Submit(req)
    \/ InitRecordOk \/ EnqueueOk
    \/ \E w \in Workers :
         \/ PollStart(w) \/ ReceiveMessages(w) \/ BatchNext(w)
         \/ ParseJob(w) \/ Validate(w)

SpecAdmit == Init /\ [][NextAdmit]_vars

\* ------------------------------------------------------------------------
\* Two messages in the queue, two workers: the keys of the store writes
\* ------------------------------------------------------------------------

KeyBodies ==
    {Job(Missing, "python", Code("str", 20), NoTimeout, Missing),
     Job("unknown", "python", Code("str", 20), NoTimeout, Missing),
     Job("x1", "python", Code("str", 20), NoTimeout, Missing)}

InitKeys ==
    /\ queue \in {Send(Send(<< >>, a), b) : a \in KeyBodies, b \in KeyBodies}
    /\ store = [k \in StoreKeys |-> NoRecord]
    /\ worker = [w \in Workers |-> WorkerInit("poll")]
    /\ shutdown = [w \in Workers |-> FALSE]
    /\ sandbox = [w \in Workers |-> "none"]
    /\ orphaned = [w \in Workers |-> FALSE]
    /\ lam = LamIdle(0, 0)
    /\ admitted = {}
    /\ now = 0
    /\ heartbeat = [w \in Workers |-> HeartbeatInit("check")]

KeysWorkerStep(w) ==
    \/ PollStart(w)
    \/ ReceiveEmpty(w) \/ ReceiveMessages(w) \/ BatchNext(w) \/ BatchEnd(w)
    \/ ParseJob(w) \/ Validate(w) \/ ExecStart(w) \/ RunExits(w)
    \/ WriteStart(w) \/ PutOk(w) \/ PutClientError(w)
    \/ DeleteOk(w) \/ Return(w)

NextKeys == \E w \in Workers : KeysWorkerStep(w)

SpecKeys == InitKeys /\ [][NextKeys]_vars

\* ------------------------------------------------------------------------
\* Properties
\* ------------------------------------------------------------------------

\* C1: process_message calls delete_message for a valid job only when
\* write_result returned True in that delivery
C1_AckOnlyAfterWrite ==
    \A w \in Workers :
        (At(w, "delete") /\ worker[w].site = "valid") => worker[w].wret = "true"

\* the record under the key of worker w's job is the outcome w holds
StoredOutcome(w) ==
    LET rec == store[worker[w].job_id]
        res == worker[w].result
    IN  /\ IsRecord(rec)
        /\ rec.job_id = worker[w].job_id
        /\ rec.status = res.status
        /\ rec.status \in Terminal
        /\ rec.output = res.output
        /\ rec.error = res.error
        /\ rec.exit_code = res.exit_code
        /\ rec.execution_time_ms = res.execution_time_ms

\* C2: when a delivery's write succeeds, however many earlier deliveries of
\* the message had a failed write, the store holds one record for the job_id,
\* under its key, with a terminal status and the outcome of that delivery
C2_RetryYieldsOneTerminalRecord ==
    \A w \in Workers :
        (worker[w].pc \in {"delete", "returned"} /\ worker[w].wret = "true")
        => /\ StoredOutcome(w)
           /\ \A k \in StoreKeys : IsRecord(store[k]) => store[k].job_id = k

C2_Witness ==
    \E w \in Workers :
        /\ At(w, "returned")
        /\ worker[w].wret = "true"
        /\ worker[w].site = "valid"
        /\ queue[worker[w].message.id].wfailed >= 2
        /\ StoredOutcome(w)

\* the message of job j was received MaxReceive times and is not deleted: the
\* model delivers it no further
OutOfDeliveries(j) ==
    \E i \in 1..Len(queue) :
        /\ queue[i].body.kind = "object"
        /\ queue[i].body.job_id = j
        /\ queue[i].rc = MaxReceive
        /\ queue[i].st # "deleted"

HasTerminalRecord(j) == IsRecord(store[j]) /\ store[j].status \in Terminal

\* C3: every admitted job eventually has a record with a terminal status
\* (as far as the model delivers its message)
C3_AdmittedJobsTerminate ==
    \A j \in {JobId(n) : n \in 1..MaxMsgs} :
        (j \in admitted) ~> (HasTerminalRecord(j) \/ OutOfDeliveries(j))

\* C4: a delivery of a message whose body is not a job object ends with
\* delete_message called and no write_result call
C4_MalformedAcked ==
    \A w \in Workers :
        (At(w, "returned") /\ Body(w).kind \in {"nonjson", "nonobject"})
        => (worker[w].deletes = 1 /\ worker[w].writes = 0)

ValidationError(res) ==
    /\ res.status = "ERROR"
    /\ res.exit_code = -1
    /\ res.execution_time_ms = 0
    /\ res.output = EmptyText
    /\ \E m \in {"Missing required field: job_id", "Missing required field: language",
                 "Missing required field: code", "Unsupported language",
                 "Code exceeds size limit", "Invalid timeout"} :
          res.error = Text("Validation error: " \o m, 0)

\* C5 as stated: a delivery of a job that validate_job rejects ends with
\* no execution, one write_result call and delete_message called
C5_InvalidAlwaysAcked ==
    \A w \in Workers :
        (At(w, "returned") /\ worker[w].site = "invalid")
        => /\ worker[w].executed = 0
           /\ worker[w].writes = 1
           /\ worker[w].deletes = 1

\* C5, amended: a delivery of a job that validate_job rejects makes no
\* execution and one write_result call, of the validation ERROR outcome; it
\* calls delete_message when write_result returned (True or False), and not
\* when write_result raised
C5_InvalidAckedWhenWriteReturns ==
    \A w \in Workers :
        worker[w].site = "invalid"
        => /\ worker[w].executed = 0
           /\ worker[w].pc \in {"write", "put", "delete", "returned"}
           /\ ValidationError(worker[w].result)
           /\ worker[w].pc # "write" =>
                 (worker[w].writes = 1 /\ worker[w].item.status = "ERROR")
           /\ At(w, "returned") =>
                 /\ worker[w].wret \in {"true", "false"} => worker[w].deletes = 1
                 /\ worker[w].wret = "none" =>
                       (worker[w].raised /\ worker[w].deletes = 0)

C5_Witness ==
    \E w \in Workers :
        /\ At(w, "returned")
        /\ worker[w].site = "invalid"
        /\ worker[w].wret = "false"
        /\ worker[w].deletes = 1
        /\ queue[worker[w].message.id].st = "deleted"

\* C6: the outcome of execute_code follows one rule of: ended with exit code
\* 0, SUCCESS; ended with another exit code, ERROR with that code; timed out,
\* TIMEOUT with exit_code -1, no output and an error stating the limit; and
\* its status is SUCCESS, ERROR or TIMEOUT
C6_Classification ==
    \A w \in Workers :
        (worker[w].site = "valid" /\ worker[w].run # NoRun)
        => LET run == worker[w].run
               res == worker[w].result
           IN  /\ res.status \in Terminal
               /\ (run.kind = "exit" /\ run.rc = 0) =>
                     (res.status = "SUCCESS" /\ res.exit_code = 0)
               /\ (run.kind = "exit" /\ run.rc # 0) =>
                     (res.status = "ERROR" /\ res.exit_code = run.rc)
               /\ run.kind = "timeout" =>
                     /\ res.status = "TIMEOUT"
                     /\ res.exit_code = -1
                     /\ res.output = EmptyText
                     /\ res.error.txt = "Execution exceeded time limit of"
                     /\ res.error.arg = GetTimeout(worker[w].job).ms
               /\ res.status = "SUCCESS" => (run.kind = "exit" /\ run.rc = 0)
               /\ res.status = "TIMEOUT" => run.kind = "timeout"

C6_Witness ==
    /\ \E w \in Workers :
         /\ worker[w].run.kind = "timeout"
         /\ worker[w].result.status = "TIMEOUT"
         /\ worker[w].result.error.arg = 500
         /\ At(w, "write")

\* C7: a failure to launch or supervise the sandbox makes execute_code return
\* ERROR with exit_code -1 and the internal-error message, and every step of
\* execute_code stays in it or returns to process_message with an outcome
C7_LaunchFailureIsAnOutcome ==
    [][\A w \in Workers :
          (worker[w].pc \in {"exec", "running"} /\ worker'[w] # worker[w])
          => /\ worker'[w].pc \in {"running", "write"}
             /\ ~worker'[w].raised
             /\ worker'[w].pc = "write" => worker'[w].result.status \in Terminal
             /\ worker'[w].run.kind = "launchfail" =>
                   /\ worker'[w].pc = "write"
                   /\ worker'[w].result.status = "ERROR"
                   /\ worker'[w].result.exit_code = -1
                   /\ worker'[w].result.error.txt = "Internal execution error"]_vars

C7_Witness ==
    \E w \in Workers :
        /\ At(w, "write")
        /\ worker[w].run.kind = "launchfail"
        /\ worker[w].job.language = "go"
        /\ worker[w].result.status = "ERROR"

\* C8: no container started by a worker is running once the execute_code
\* call that started it has returned
C8_NoSandboxAfterReturn ==
    \A w \in Workers :
        /\ ~orphaned[w]
        /\ worker[w].pc # "running" => sandbox[w] = "none"

\* C9: a write_result call makes at most 3 put attempts, sleeps 1 s then 2 s
\* between failed attempts, returns True at its first successful attempt (one
\* write), and returns False after 3 ClientErrors
C9_BoundedRetry ==
    \A w \in Workers :
        worker[w].writes > 0
        => LET r == worker[w]
           IN  /\ r.puts <= max_retries
               /\ r.stored <= 1
               /\ Len(r.slept) <= max_retries - 1
               /\ \A i \in 1..Len(r.slept) : r.slept[i] = 2 ^ (i - 1)
               /\ r.pc = "put" =>
                     (r.puts = r.attempt /\ r.stored = 0 /\ Len(r.slept) = r.attempt
                      /\ r.attempt < max_retries /\ r.wret = "none")
               /\ r.wret = "true" =>
                     (r.stored = 1 /\ r.puts = Len(r.slept) + 1)
               /\ r.wret = "false" =>
                     (r.stored = 0 /\ r.puts = max_retries /\ r.slept = <<1, 2>>
                      /\ r.pc \in {"delete", "returned"})

C9_Witness ==
    \E w \in Workers :
        /\ worker[w].wret = "true"
        /\ worker[w].puts = 3
        /\ worker[w].slept = <<1, 2>>
        /\ worker[w].stored = 1

\* C10: an exception raised during validation, execution or persistence is
\* caught in process_message with the message not deleted, process_message
\* returns to the loop, which goes on to poll; a write_result that returned
\* False does not stop the worker either
C10_ExceptionsStayInProcessMessage ==
    [][\A w \in Workers :
          /\ (worker[w].pc \in {"parse", "validate", "exec", "running", "write", "put"}
              /\ worker'[w].raised)
             => /\ worker'[w].pc = "returned"
                /\ worker'[w].deletes = 0
                /\ worker'[w].consecutive_errors = worker[w].consecutive_errors
                /\ queue' = queue
          /\ At(w, "returned")
             => /\ worker'[w].pc \in {"returned", "batch"}
                /\ worker'[w].consecutive_errors = worker[w].consecutive_errors
          /\ At(w, "batch") => worker'[w].pc \in {"batch", "parse", "poll"}
          /\ worker'[w].wret = "false" => worker'[w].pc \in {"delete", "returned"}
      ]_vars

C10_Witness ==
    \E w \in Workers :
        /\ At(w, "returned")
        /\ worker[w].raised
        /\ worker[w].site = "valid"
        /\ worker[w].puts = 2
        /\ worker[w].wret = "none"
        /\ worker[w].deletes = 0
        /\ queue[worker[w].message.id].st = "inflight"

\* a successful put of a call of write_result that follows an earlier call
\* with the same arguments whose record is in the store
SecondWrite(w) ==
    /\ At(w, "put")
    /\ worker[w].writes = MaxWrites
    /\ worker'[w].wret = "true"
    /\ IsRecord(store[worker[w].job_id])

\* C11 as stated: the second write_result call with the same job_id, outcome
\* and job metadata leaves the record of job_id with the content it had after
\* the first, and the rest of the store as it was
C11_SecondWriteSameContent ==
    [][\A w \in Workers : SecondWrite(w) => store' = store]_vars

\* C11, amended: the second write_result call with the same job_id, outcome
\* and job metadata leaves one record under job_id whose fields are those of
\* the first call's record, except timestamp and ttl, which are those of the
\* second call; no other record changes
C11_SecondWriteSameOutcome ==
    [][\A w \in Workers :
          SecondWrite(w)
          => LET k == worker[w].job_id
             IN  /\ store'[k] = [store[k] EXCEPT !.timestamp = worker[w].item.timestamp,
                                                 !.ttl = worker[w].item.ttl]
                 /\ store'[k].job_id = k
                 /\ store'[k].ttl = store'[k].timestamp + TTL_DAYS * 86400
                 /\ \A j \in StoreKeys \ {k} : store'[j] = store[j]]_vars

C11_Witness ==
    \E w \in Workers :
        /\ At(w, "delete")
        /\ worker[w].writes = MaxWrites
        /\ worker[w].wret = "true"
        /\ queue[worker[w].message.id].wfailed = 0
        /\ store[worker[w].job_id].timestamp > 0
        /\ store[worker[w].job_id].status = "TIMEOUT"

\* the acceptance rule of C12
Accepted(job) ==
    /\ job.job_id # Missing
    /\ job.language # Missing
    /\ job.code.kind # "missing"
    /\ job.language \in LANGUAGE_IMAGES
    /\ job.code.kind \in {"str", "sized"}
    /\ job.code.len <= 10240
    /\ GetTimeout(job).t = "num"
    /\ GetTimeout(job).ms > 0
    /\ GetTimeout(job).ms <= 10000

\* the messages that name a field or rule the job offends
Offences(job) ==
    {"Missing required field: job_id" : x \in {1} \cap {IF job.job_id = Missing THEN 1 ELSE 0}}
    \cup {"Missing required field: language" :
             x \in {1} \cap {IF job.language = Missing THEN 1 ELSE 0}}
    \cup {"Missing required field: code" :
             x \in {1} \cap {IF job.code.kind = "missing" THEN 1 ELSE 0}}
    \cup {"Unsupported language" :
             x \in {1} \cap {IF job.language \notin LANGUAGE_IMAGES \cup {Missing}
                             THEN 1 ELSE 0}}
    \cup {"Code exceeds size limit" :
             x \in {1} \cap {IF job.code.kind \in {"str", "sized"} /\ job.code.len > 10240
                             THEN 1 ELSE 0}}
    \cup {"Invalid timeout" :
             x \in {1} \cap {IF \/ GetTimeout(job).t # "num"
                                \/ GetTimeout(job).ms <= 0
                                \/ GetTimeout(job).ms > 10000
                             THEN 1 ELSE 0}}

\* C12: validate_job accepts a job exactly when it has job_id, language and
\* code, a whitelisted language, a code of length at most 10240 and a timeout
\* (10 when absent) that is a number in (0, 10]; it returns (True, None) for
\* these and (False, message) for every other job, the message naming a field
\* or rule the job offends
C12_ValidateJobContract ==
    \A w \in Workers :
        (worker[w].job # NoJob /\ worker[w].pc \notin {"validate", "off"})
        => LET job == worker[w].job
           IN  /\ Accepted(job) => (At(w, "exec") /\ ~worker[w].raised)
               /\ ~Accepted(job) =>
                     /\ At(w, "write")
                     /\ ~worker[w].raised
                     /\ \E m \in Offences(job) :
                           worker[w].result = ValidationOutcome(m)

\* C13: every timeout execute_code is invoked with is at least 1 and at most
\* 10 seconds
C13_ExecutedTimeoutInRange ==
    \A w \in Workers :
        worker[w].executed >= 1
        => /\ GetTimeout(worker[w].job).t = "num"
           /\ GetTimeout(worker[w].job).ms >= Seconds(1)
           /\ GetTimeout(worker[w].job).ms <= Seconds(10)

\* the positions of a worker inside process_message
InProcess == {"parse", "validate", "exec", "running", "write", "put", "delete"}

\* C14: once the shutdown flag is set while a message is inside
\* process_message, every step of the worker stays in process_message until it
\* returns (it leaves otherwise only by an exception of the delete of a
\* malformed message), and a job that was executed and met no exception
\* returns with its one execution, one write_result call and one
\* delete_message call made
C14_ShutdownWaitsForMessage ==
    [][\A w \in Workers :
          (shutdown[w] /\ worker[w].pc \in InProcess /\ worker'[w] # worker[w])
          => /\ \/ worker'[w].pc \in InProcess \cup {"returned"}
                \/ worker[w].site = "malformed" /\ At(w, "delete")
             /\ (worker'[w].pc = "returned" /\ worker'[w].executed >= 1
                   /\ ~worker'[w].raised)
                => /\ worker'[w].executed = 1
                   /\ worker'[w].writes = 1
                   /\ worker'[w].wret \in {"true", "false"}
                   /\ worker'[w].deletes = 1]_vars

C14_Witness ==
    \E w \in Workers :
        /\ shutdown[w]
        /\ At(w, "returned")
        /\ worker[w].site = "valid"
        /\ worker[w].run.kind = "exit"
        /\ worker[w].wret = "true"
        /\ worker[w].deletes = 1
        /\ queue[worker[w].message.id].st = "deleted"

\* C15: consecutive_errors is the number of failed poll cycles since the last
\* poll cycle that succeeded, with or without messages: every successful poll
\* cycle resets it to 0
C15_CounterIsStreak ==
    \A w \in Workers : worker[w].consecutive_errors = worker[w].streak

\* C16: a failed poll cycle that is the 5th in a row ends the loop, after
\* which the worker takes no step; one that is the 1st to 4th in a row is
\* followed by the backoff and then the next poll; the counter never exceeds 5
C16_StopsAtFifthFailureInARow ==
    [][\A w \in Workers :
          /\ At(w, "stopped") => worker'[w] = worker[w]
          /\ worker'[w].consecutive_errors <= 5
          /\ worker'[w].streak = worker[w].streak + 1
             => worker'[w].pc = IF worker'[w].streak >= 5 THEN "stopped" ELSE "backoff"
          /\ (At(w, "backoff") /\ worker'[w] # worker[w])
             => worker'[w] = [worker[w] EXCEPT !.pc = "poll"]]_vars

\* the containers of worker w that are running
Running(w) ==
    (IF sandbox[w] = "running" THEN 1 ELSE 0) + (IF orphaned[w] THEN 1 ELSE 0)

\* C17: a worker has at most one sandbox execution in flight, and while
\* execute_code runs for a message the worker has called no delete_message
\* for it and holds no other step of the loop
C17_OneExecutionInFlight ==
    \A w \in Workers :
        /\ Running(w) <= 1
        /\ sandbox[w] = "running" => (At(w, "running") /\ worker[w].deletes = 0)

\* C18: with two workers on a message whose visibility timeout expires, the
\* store changes only by a worker's successful put, which leaves under the
\* job_id exactly the item that worker wrote, whatever was there, and nothing
\* else changed; every record is under its own job_id; and a delete_message,
\* stale or not, ends with process_message returning and the worker polling on
C18_LastWriteWins ==
    [][/\ \A w \in Workers :
            (At(w, "put") /\ worker'[w].wret = "true")
            => /\ store' = [store EXCEPT ![worker[w].job_id] = worker[w].item]
               /\ store'[worker[w].job_id].worker_id = w
               /\ store'[worker[w].job_id].status = worker[w].result.status
               /\ store'[worker[w].job_id].output = worker[w].result.output
       /\ store' # store
          => \E w \in Workers : At(w, "put") /\ worker'[w].wret = "true"
       /\ \A k \in StoreKeys : IsRecord(store'[k]) => store'[k].job_id = k
       /\ \A w \in Workers :
            (At(w, "delete") /\ worker'[w] # worker[w])
            => worker'[w].pc = "returned"
       /\ \A w \in Workers : worker'[w].pc # "stopped"]_vars

\* both workers wrote the job's record, with different outcomes; the first has
\* acknowledged with a stale handle and the record is the second's
C18_Witness ==
    \E a, b \in Workers :
        /\ a # b
        /\ At(a, "returned") /\ worker[a].wret = "true" /\ worker[a].deletes = 1
        /\ ~worker[a].raised
        /\ worker[a].message.rc < queue[worker[a].message.id].rc
        /\ worker[b].wret = "true"
        /\ worker[b].job_id = worker[a].job_id
        /\ worker[b].item.status # worker[a].item.status
        /\ store[worker[b].job_id] = worker[b].item

\* C19: a message of the submission handler is on the queue only if a record
\* for its job_id has been written, and the handler reaches enqueue_job and
\* answers 202 only with that record written
C19_PendingBeforeEnqueue ==
    /\ \A i \in 1..Len(queue) :
         (queue[i].body.kind = "object"
            /\ queue[i].body.job_id \in {JobId(n) : n \in 1..MaxMsgs})
         => /\ IsRecord(store[queue[i].body.job_id])
            /\ store[queue[i].body.job_id].job_id = queue[i].body.job_id
    /\ lam.pc = "enqueue" => IsRecord(store[lam.job.job_id])
    /\ \A j \in admitted : IsRecord(store[j])

C19_Witness ==
    \E i \in 1..Len(queue) :
        /\ queue[i].body.kind = "object"
        /\ queue[i].body.job_id = JobId(1)
        /\ queue[i].rc = 0
        /\ store[JobId(1)].status = "PENDING"
        /\ lam.code = 202

\* C20: a step of the heartbeat thread changes nothing of the queue, the
\* store and the main loop; a failed write of the file leaves the thread in
\* its loop, and the thread ends only with the shutdown flag set or the
\* process ended; and as long as the flag is not set and the main loop has not
\* returned, wherever it is blocked, the file is written again and again
C20_HeartbeatIndependent ==
    /\ [][\A w \in Workers :
            /\ heartbeat'[w] # heartbeat[w]
               => /\ queue' = queue /\ store' = store /\ worker' = worker
                  /\ shutdown' = shutdown
            /\ (Beating(w, "beat") /\ heartbeat'[w] # heartbeat[w])
               => (heartbeat'[w].pc \in {"sleep", "check"} \/ At(w, "stopped"))
            /\ (heartbeat'[w].pc = "done" /\ ~Beating(w, "done"))
               => (shutdown[w] \/ At(w, "stopped"))]_vars
    /\ \A w \in Workers :
         [](~shutdown[w] /\ worker[w].pc \notin {"off", "stopped"})
         => []<>(Beating(w, "sleep"))

\* the latest heartbeat was written at the last tick of the clock, with the
\* main loop in the sandbox call
C20_Witness ==
    \E w \in Workers :
        /\ At(w, "running")
        /\ ~shutdown[w]
        /\ Beating(w, "sleep")
        /\ heartbeat[w].file = MaxTime

\* C21: for a run that ended within the timeout, output and error are the
\* captured stdout and stderr cut to their first 4000 characters: the same
\* text, of the captured length when that is at most 4000 and of length 4000
\* otherwise
C21_OutputsArePrefixes ==
    \A w \in Workers :
        worker[w].run.kind = "exit"
        => LET run == worker[w].run
               res == worker[w].result
           IN  /\ res.output.txt = run.out.txt
               /\ res.error.txt = run.err.txt
               /\ res.output.len <= 4000
               /\ res.error.len <= 4000
               /\ run.out.len <= 4000 => res.output = run.out
               /\ run.err.len <= 4000 => res.error = run.err
               /\ run.out.len > 4000 => res.output.len = 4000
               /\ run.err.len > 4000 => res.error.len = 4000

C21_Witness ==
    \E w \in Workers :
        /\ At(w, "write")
        /\ worker[w].run.kind = "exit"
        /\ worker[w].run.out.len = 4001
        /\ worker[w].result.output.len = 4000
        /\ worker[w].run.err.len = 4000
        /\ worker[w].result.error = worker[w].run.err

\* C22: the record of a submitted job, once it holds a terminal status,
\* carries every field of a Job Record, and its submitted_at is the one
\* recorded at submission
C22_FullJobRecord ==
    \A i \in 1..Len(queue) :
        LET j == queue[i].body.job_id
        IN  (queue[i].body.kind = "object" /\ j \in admitted /\ HasTerminalRecord(j))
            => /\ {"status", "language", "submitted_at", "output", "error",
                   "exit_code", "execution_time_ms", "worker_id", "timestamp",
                   "ttl"} \subseteq DOMAIN store[j]
               /\ store[j].submitted_at = queue[i].body.submitted_at

\* C23: with the shutdown flag set, the worker at the head of the loop leaves
\* it without a poll, the worker between messages of a batch starts none and
\* leaves the rest of the batch on the queue, not deleted; and poll_queue
\* returns in the end
C23_ShutdownStopsTheLoop ==
    /\ [][\A w \in Workers :
            (shutdown[w] /\ worker'[w] # worker[w])
            => /\ At(w, "poll") => worker'[w].pc = "stopped"
               /\ At(w, "batch")
                  => /\ worker'[w].pc = "poll"
                     /\ queue' = queue
                     /\ \A n \in 1..Len(worker[w].messages) :
                           queue[worker[w].messages[n].id].st # "deleted"
               /\ worker'[w].pc = "receive" => At(w, "receive")
               /\ worker'[w].pc = "parse" => At(w, "parse")]_vars
    /\ \A w \in Workers : shutdown[w] ~> At(w, "stopped")

\* the worker has stopped on the flag, and the message it received while the
\* signal arrived is in flight, received once and not deleted
C23_Witness ==
    \E w \in Workers :
        /\ shutdown[w]
        /\ At(w, "stopped")
        /\ worker[w].consecutive_errors = 0
        /\ Len(queue) = 1
        /\ queue[1].st = "inflight"
        /\ queue[1].rc = 1
        /\ \A k \in StoreKeys : ~IsRecord(store[k])

\* C24: consecutive_errors grows only by a step of the receive call, and the
\* worker leaves its loop only at the head of the loop or by a failed
\* receive: no step taken while a message is processed does either
C24_OnlyReceiveFailuresCount ==
    [][\A w \in Workers :
          (\/ worker'[w].consecutive_errors > worker[w].consecutive_errors
           \/ worker'[w].pc = "stopped" /\ ~At(w, "stopped"))
          => worker[w].pc \in {"poll", "receive"}]_vars

\* C25: a record that holds a terminal status holds a terminal status after
\* every step: it never goes back to PENDING (nor is it removed)
C25_StatusMonotonic ==
    [][\A k \in StoreKeys :
          (IsRecord(store[k]) /\ store[k].status \in Terminal)
          => (IsRecord(store'[k]) /\ store'[k].status \in Terminal)]_vars

\* the record of an admitted job was written by both workers, the second
\* after a redelivery, and holds the later outcome
C25_Witness ==
    \E a, b \in Workers :
        /\ a # b
        /\ worker[a].job_id \in admitted
        /\ worker[b].job_id = worker[a].job_id
        /\ worker[a].wret = "true" /\ worker[b].wret = "true"
        /\ worker[a].message.rc < worker[b].message.rc
        /\ store[worker[b].job_id] = worker[b].item
        /\ store[worker[b].job_id].status \in Terminal

\* C26: the job the submission handler builds from a request it accepts is
\* accepted by validate_job, and the worker that validates its message goes
\* on to execute it: no validation ERROR and no exception
C26_AdmittedJobsPassWorkerValidation ==
    /\ lam.pc \in {"init", "enqueue"} => validate_job(lam.job) = Valid
    /\ \A i \in 1..Len(queue) : validate_job(queue[i].body) = Valid
    /\ \A w \in Workers :
         worker[w].job # NoJob
         => /\ worker[w].pc \in {"validate", "exec"}
            /\ worker[w].site # "invalid"
            /\ ~worker[w].raised

\* the worker accepted a job submitted as "GO" with the code at the size
\* limit and no timeout
C26_Witness ==
    \E w \in Workers :
        /\ At(w, "exec")
        /\ worker[w].site = "valid"
        /\ worker[w].job_id \in admitted
        /\ worker[w].job.language = "go"
        /\ worker[w].job.code.len = MAX_CODE_SIZE
        /\ worker[w].job.timeout = Num(Seconds(DEFAULT_SUBMIT_TIMEOUT))

\* a worker that has stored the result of the message it is processing
HasStored(w) == worker[w].pc \in {"delete", "returned"} /\ worker[w].stored > 0

\* C27: two workers that stored results under the same store key were
\* processing messages that carry the same job_id
C27_SameKeyOnlyForSameJobId ==
    \A w1 \in Workers : \A w2 \in Workers :
        (/\ HasStored(w1) /\ HasStored(w2)
         /\ worker[w1].item.job_id = worker[w2].item.job_id)
        => Body(w1).job_id = Body(w2).job_id
====
